---- MODULE Spec2Model ----
(***************************************************************************)
(* Frequent contiguous sequential pattern mining (Scripts/freqsubseq.py):  *)
(* the pattern trie, the A-priori and position-based extensions and the    *)
(* controller frequent_patterns, driven as test_frequent_patterns drives   *)
(* it: one call per method on the same data.                               *)
(*                                                                         *)
(* A Python string is a sequence of one-letter strings.  An optional value *)
(* (None, an attribute or local that may be unset) is a set with at most   *)
(* one element.  The trie is the heap of its Tree objects, addressed by    *)
(* the path that leads to each from the root; the attributes an object     *)
(* carries are the domain of its record (hasattr is a DOMAIN test).        *)
(***************************************************************************)
EXTENDS Integers, Sequences, FiniteSets, TLC

VARIABLES data, min_len, max_len, thrd, MAX_SIZE,
          method, pc, tree, queue, use_apriori, _len, counter,
          engine, enumerated, results, calls, sigthrd

vars == <<data, min_len, max_len, thrd, MAX_SIZE,
          method, pc, tree, queue, use_apriori, _len, counter,
          engine, enumerated, results, calls, sigthrd>>

-----------------------------------------------------------------------------
(* Bounds of the model *)

MaxTotal == 4

MaxLen == 3

MaxThrd == 2

MaxBudget == 2

MaxCalls == 3

MaxNum == 5

MaxLwrBd == 3

MaxSupport == 3

-----------------------------------------------------------------------------
(* Program constants *)

NUCLEOTIDES_sorted == <<"A", "C", "G", "T">>

NUCLEOTIDES == <<"A", "C", "T", "G">>

ConfiguredMaxSize == 100000000

TestNum == 2

TestThrd == 4

TestMinLen == 1

TestMaxLen == 3

TestLevel == 2

TestDelta == 1

ConfPercent == 90

TestSeq == <<"A", "C", "G", "A", "T", "T", "C", "G", "A", "T", "C", "G">>

Methods == <<"apriori", "position", "hybrid">>

-----------------------------------------------------------------------------
(* Optional values *)

None == {}

Some(v) == {v}

TheOne(s) == CHOOSE v \in s : TRUE

HasAttr(node, name) == name \in DOMAIN node

SetAttr(node, name, v) ==
    [f \in DOMAIN node \cup {name} |-> IF f = name THEN v ELSE node[f]]

(* A for loop over a sequence: Body(acc, element) is the state after one   *)
(* iteration from state acc.  The elements are taken in order; the state   *)
(* reached by the first half of the iterations is a value before the       *)
(* second half starts from it.                                             *)
RECURSIVE ForRange(_, _, _, _, _)
ForRange(Body(_, _), acc, seq, lo, hi) ==
    IF lo > hi THEN acc
    ELSE IF lo = hi THEN Body(acc, seq[lo])
    ELSE LET mid == (lo + hi) \div 2
         IN  TheOne({ForRange(Body, half, seq, mid + 1, hi) :
                        half \in {ForRange(Body, acc, seq, lo, mid)}})

For(Body(_, _), acc, seq) == ForRange(Body, acc, seq, 1, Len(seq))

Flatten(ss) == For(LAMBDA acc, s : acc \o s, <<>>, ss)

-----------------------------------------------------------------------------
(* class Tree *)

NewNode(seq) == [seq |-> seq]

Tree == (<<>> :> NewNode(<<>>))

has_child(t, at, nc) == Append(at, nc) \in DOMAIN t

AddCount_overwrite(node, count) == SetAttr(node, "count", count)

AddCount(node, count) ==
    SetAttr(node, "count",
            IF HasAttr(node, "count") THEN node.count + count ELSE count)

SetAttrs(node, attr_val) ==
    [f \in DOMAIN node \cup DOMAIN attr_val |->
        IF f \in DOMAIN attr_val THEN attr_val[f] ELSE node[f]]

RECURSIVE add(_, _, _, _, _)
add(t, at, seq, count, attr_val) ==
    IF Len(seq) = 0
    THEN LET n0 == t[at]
             n1 == IF count # None THEN AddCount(n0, TheOne(count)) ELSE n0
             n2 == IF attr_val # None THEN SetAttrs(n1, TheOne(attr_val)) ELSE n1
         IN  [t EXCEPT ![at] = n2]
    ELSE LET nc == Head(seq)
             to == Append(at, nc)
             t1 == IF ~has_child(t, at, nc)
                   THEN t @@ (to :> NewNode(Append(t[at].seq, nc)))
                   ELSE t
         IN  add(t1, to, Tail(seq), count, attr_val)

RECURSIVE pattern(_, _, _)
pattern(t, at, seq) ==
    IF Len(seq) = 0 THEN Some(at)
    ELSE IF ~has_child(t, at, Head(seq)) THEN None
    ELSE pattern(t, Append(at, Head(seq)), Tail(seq))

increment_count_creating(t, seq, count) == add(t, <<>>, seq, Some(count), None)

increment_count(t, seq, count) ==
    LET found == pattern(t, <<>>, seq)
    IN  IF found = None THEN t
        ELSE [t EXCEPT ![TheOne(found)] = AddCount(@, count)]

has_count_at_least_any(t, at, th) == HasAttr(t[at], "count")

has_count_at_least_or_zero(t, at, th) ==
    (IF HasAttr(t[at], "count") THEN t[at].count ELSE 0) >= th

has_count_at_least(t, at, th) ==
    HasAttr(t[at], "count") /\ t[at].count >= th

all_children(t, at) ==
    LET ncs == SelectSeq(NUCLEOTIDES, LAMBDA nc : has_child(t, at, nc))
    IN  [i \in 1..Len(ncs) |-> Append(at, ncs[i])]

RECURSIVE all_nodes(_, _)
all_nodes(t, at) ==
    LET ch == all_children(t, at)
    IN  <<at>> \o Flatten([i \in 1..Len(ch) |-> all_nodes(t, ch[i])])

all_patterns_at_least(t, th) ==
    LET ns == SelectSeq(all_nodes(t, <<>>),
                        LAMBDA at : has_count_at_least(t, at, th))
    IN  [i \in 1..Len(ns) |-> <<t[ns[i]].seq, t[ns[i]].count>>]

RECURSIVE nodes_at_level(_, _, _)
nodes_at_level(t, at, level) ==
    IF level = 0 THEN <<at>>
    ELSE LET ch == all_children(t, at)
         IN  Flatten([i \in 1..Len(ch) |-> nodes_at_level(t, ch[i], level - 1)])

-----------------------------------------------------------------------------
(* class Counter: the tests hand frequent_patterns a Counter, never None *)

increment_assign(c) == 1

increment(c) == c + 1

-----------------------------------------------------------------------------
(* Slices *)

DropFirst(seq) == IF Len(seq) = 0 THEN <<>> ELSE Tail(seq)

LastOnly(seq) == IF Len(seq) = 0 THEN <<>> ELSE <<seq[Len(seq)]>>

-----------------------------------------------------------------------------
(* The sequence provider: data.items() enumerates the stored sequences *)

items(d) == d

subsequences_truncated(seq, n) ==
    [i \in 1..Len(seq) |->
        SubSeq(seq, i, IF i + n - 1 > Len(seq) THEN Len(seq) ELSE i + n - 1)]

subsequences_short(seq, n) ==
    [i \in 1..(Len(seq) - n) |-> SubSeq(seq, i, i + n - 1)]

subsequences(seq, n) ==
    [i \in 1..(Len(seq) - n + 1) |-> SubSeq(seq, i, i + n - 1)]

AllSubsequences(d, n) ==
    Flatten([k \in 1..Len(items(d)) |-> subsequences(items(d)[k], n)])

-----------------------------------------------------------------------------
(* First pass *)

AddEach(t, seqs, count) ==
    For(LAMBDA acc, seq : add(acc, <<>>, seq, count, None), t, seqs)

initialized_tree(d, n) == AddEach(Tree, AllSubsequences(d, n), Some(1))

-----------------------------------------------------------------------------
(* A-priori *)

(* The nodes of a level that pass the test of has_count_at_least, in the   *)
(* order of nodes_at_level.                                                *)
Frequent(t, n, th) ==
    SelectSeq(nodes_at_level(t, <<>>, n),
              LAMBDA at : has_count_at_least(t, at, th))

(* The (prefix node, suffix node) pairs the two candidate generators walk. *)
(* Both generators are lazy and their consumers add the level-n candidates *)
(* while iterating; the generators read levels n-2 and n-1 only, so the    *)
(* pairs are those of the tree as it is when the iteration starts.         *)
CandidatePairs(t, n, th) ==
    LET ps == nodes_at_level(t, <<>>, n - 1)
        Of(p) ==
            IF ~has_count_at_least(t, p, th) THEN <<>>
            ELSE LET node_i == pattern(t, <<>>, DropFirst(t[p].seq))
                 IN  IF node_i = None THEN <<>>
                     ELSE LET ss == SelectSeq(all_children(t, TheOne(node_i)),
                                      LAMBDA s : has_count_at_least(t, s, th))
                          IN  [j \in 1..Len(ss) |-> <<p, ss[j]>>]
    IN  Flatten([i \in 1..Len(ps) |-> Of(ps[i])])

candidates_any_suffix(t, n, th) ==
    LET ps == Frequent(t, n - 1, th)
        Of(p) ==
            LET node_i == pattern(t, <<>>, DropFirst(t[p].seq))
            IN  IF node_i = None THEN <<>>
                ELSE LET ss == all_children(t, TheOne(node_i))
                     IN  [j \in 1..Len(ss) |->
                             t[p].seq \o LastOnly(t[ss[j]].seq)]
    IN  Flatten([i \in 1..Len(ps) |-> Of(ps[i])])

candidates_prefix_last(t, n, th) ==
    LET prs == CandidatePairs(t, n, th)
    IN  [k \in 1..Len(prs) |->
            t[prs[k][1]].seq \o LastOnly(t[prs[k][1]].seq)]

candidates(t, n, th) ==
    LET prs == CandidatePairs(t, n, th)
    IN  [k \in 1..Len(prs) |->
            t[prs[k][1]].seq \o LastOnly(t[prs[k][2]].seq)]

IncrementEach(t, seqs) ==
    For(LAMBDA acc, seq : increment_count(acc, seq, 1), t, seqs)

run_apriori_adding(d, t, n, th) ==
    LET t1 == AddEach(t, candidates(t, n, th), None)
    IN  AddEach(t1, AllSubsequences(d, n), Some(1))

run_apriori(d, t, n, th) ==
    LET t1 == AddEach(t, candidates(t, n, th), None)
    IN  IncrementEach(t1, AllSubsequences(d, n))

-----------------------------------------------------------------------------
(* Position-based *)

assign_pattern_index_by_rank(t, n, th) ==
    LET ns == nodes_at_level(t, <<>>, n)
    IN  [at \in DOMAIN t |->
            IF (\E i \in 1..Len(ns) : ns[i] = at) /\ has_count_at_least(t, at, th)
            THEN SetAttr(t[at], "idx", (CHOOSE i \in 1..Len(ns) : ns[i] = at) - 1)
            ELSE t[at]]

assign_pattern_index(t, n, th) ==
    LET ns == Frequent(t, n, th)
    IN  [at \in DOMAIN t |->
            IF \E i \in 1..Len(ns) : ns[i] = at
            THEN SetAttr(t[at], "idx", (CHOOSE i \in 1..Len(ns) : ns[i] = at) - 1)
            ELSE t[at]]

initialized_queue_from_one(d, t, n, th) ==
    LET Rec(id, pos, subseq) ==
            LET node == pattern(t, <<>>, subseq)
            IN  IF node # None /\ has_count_at_least(t, TheOne(node), th)
                THEN << <<id, pos, t[TheOne(node)].idx>> >>
                ELSE <<>>
        OfSeq(k) ==
            LET ws == subsequences(items(d)[k], n)
            IN  Flatten([i \in 1..Len(ws) |-> Rec(k - 1, i, ws[i])])
    IN  Flatten([k \in 1..Len(items(d)) |-> OfSeq(k)])

initialized_queue(d, t, n, th) ==
    LET Rec(id, pos, subseq) ==
            LET node == pattern(t, <<>>, subseq)
            IN  IF node # None /\ has_count_at_least(t, TheOne(node), th)
                THEN << <<id, pos, t[TheOne(node)].idx>> >>
                ELSE <<>>
        OfSeq(k) ==
            LET ws == subsequences(items(d)[k], n)
            IN  Flatten([i \in 1..Len(ws) |-> Rec(k - 1, i - 1, ws[i])])
    IN  Flatten([k \in 1..Len(items(d)) |-> OfSeq(k)])

candidate_mappings_swapped(t, n, th) ==
    LET prs == CandidatePairs(t, n, th)
    IN  [k \in 1..Len(prs) |->
            << t[prs[k][1]].seq \o LastOnly(t[prs[k][2]].seq),
               <<t[prs[k][2]].idx, t[prs[k][1]].idx>>,
               k - 1 >>]

candidate_mappings(t, n, th) ==
    LET prs == CandidatePairs(t, n, th)
    IN  [k \in 1..Len(prs) |->
            << t[prs[k][1]].seq \o LastOnly(t[prs[k][2]].seq),
               <<t[prs[k][1]].idx, t[prs[k][2]].idx>>,
               k - 1 >>]

AddIndexed(t, cms) ==
    For(LAMBDA acc, cm : add(acc, <<>>, cm[1], None, Some([idx |-> cm[3]])),
        t, cms)

(* index_map[indices] = cand_idx: a later assignment to a key replaces an  *)
(* earlier one.                                                            *)
IndexMap(cms) ==
    [ind \in {cms[k][2] : k \in 1..Len(cms)} |->
        LET last == CHOOSE k \in 1..Len(cms) :
                        /\ cms[k][2] = ind
                        /\ \A j \in 1..Len(cms) : cms[j][2] = ind => j <= k
        IN  cms[last][3]]

PatternOf(cms) ==
    [c \in {cms[k][3] : k \in 1..Len(cms)} |->
        cms[CHOOSE k \in 1..Len(cms) : cms[k][3] = c][1]]

Adjacent_same_id(current, next) == next[1] = current[1]

Adjacent(current, next) ==
    next[1] = current[1] /\ next[2] - current[2] = 1

JoinStep_next_pos(q, k, index_map, pat, st) ==
    LET current == q[k - 1]
        next == q[k]
        key == <<current[3], next[3]>>
    IN  IF Adjacent(current, next) /\ key \in DOMAIN index_map
        THEN LET cand_idx == index_map[key]
             IN  [queue |-> Append(st.queue,
                                   <<next[1], next[2], cand_idx>>),
                  tree |-> increment_count(st.tree, pat[cand_idx], 1)]
        ELSE st

(* One iteration of the while loop of run_position, st the new queue and  *)
(* the tree so far: q[k-1] is the current record and q[k] the one popped.  *)
JoinStep(q, k, index_map, pat, st) ==
    LET current == q[k - 1]
        next == q[k]
        key == <<current[3], next[3]>>
    IN  IF Adjacent(current, next) /\ key \in DOMAIN index_map
        THEN LET cand_idx == index_map[key]
             IN  [queue |-> Append(st.queue,
                                   <<current[1], current[2], cand_idx>>),
                  tree |-> increment_count(st.tree, pat[cand_idx], 1)]
        ELSE st

JoinLoop_from_second(q, index_map, pat, t) ==
    For(LAMBDA st, k : JoinStep(q, k, index_map, pat, st),
        [queue |-> <<>>, tree |-> t],
        [i \in 1..(Len(q) - 2) |-> i + 2])

JoinLoop(q, index_map, pat, t) ==
    For(LAMBDA st, k : JoinStep(q, k, index_map, pat, st),
        [queue |-> <<>>, tree |-> t],
        [i \in 1..(Len(q) - 1) |-> i + 1])

run_position_appending(q, t, n, th) ==
    IF Len(q) = 0 THEN [queue |-> q, tree |-> t]
    ELSE LET cms == candidate_mappings(t, n, th)
             r == JoinLoop(q, IndexMap(cms), PatternOf(cms), AddIndexed(t, cms))
         IN  [queue |-> q \o r.queue, tree |-> r.tree]

run_position(q, t, n, th) ==
    IF Len(q) = 0 THEN [queue |-> q, tree |-> t]
    ELSE LET cms == candidate_mappings(t, n, th)
         IN  JoinLoop(q, IndexMap(cms), PatternOf(cms), AddIndexed(t, cms))

number_of_freq_subseq_nodes(t, n, th) ==
    For(LAMBDA total, at : total + 1, 0, Frequent(t, n, th))

number_of_freq_subseq(t, n, th) ==
    For(LAMBDA total, at : total + t[at].count, 0, Frequent(t, n, th))

-----------------------------------------------------------------------------
(* frequent_patterns: the tests on the size of the queue to be built *)

ExceedsAllocatedMemory_at_limit(num, max_size) == num >= max_size

ExceedsAllocatedMemory(num, max_size) == num > max_size

(* The queue as Position takes over at level n: [tree, queue, counter].    *)
BuildQueue(d, t, n, th, c) ==
    LET t1 == assign_pattern_index(t, n, th)
    IN  [tree |-> t1,
         queue |-> Some(initialized_queue(d, t1, n, th)),
         counter |-> increment(c)]

HybridSwitch_below_limit(d, t, n, th, max_size, ua, q, c) ==
    IF ua /\ number_of_freq_subseq(t, n, th) < max_size
    THEN [use_apriori |-> FALSE] @@ BuildQueue(d, t, n, th, c)
    ELSE [use_apriori |-> ua, tree |-> t, queue |-> q, counter |-> c]

HybridSwitch_uncounted(d, t, n, th, max_size, ua, q, c) ==
    IF ua /\ number_of_freq_subseq(t, n, th) <= max_size
    THEN [use_apriori |-> FALSE, counter |-> c] @@ BuildQueue(d, t, n, th, c)
    ELSE [use_apriori |-> ua, tree |-> t, queue |-> q, counter |-> c]

(* The switch test at the top of an iteration with method 'hybrid'.        *)
HybridSwitch(d, t, n, th, max_size, ua, q, c) ==
    IF ua /\ number_of_freq_subseq(t, n, th) <= max_size
    THEN [use_apriori |-> FALSE] @@ BuildQueue(d, t, n, th, c)
    ELSE [use_apriori |-> ua, tree |-> t, queue |-> q, counter |-> c]

-----------------------------------------------------------------------------
(* Inputs *)

InputSymbols == {NUCLEOTIDES[1], NUCLEOTIDES[2]}

Strings(n) == UNION {[1..k -> InputSymbols] : k \in 0..n}

(* No sequence at all, or TestNum sequences of at most MaxTotal symbols    *)
(* together (a sequence may be empty or shorter than the patterns).        *)
Corpora ==
    {<<>>} \cup
    {c \in [1..TestNum -> Strings(MaxTotal)] :
        Len(Flatten(c)) <= MaxTotal}

TestData == [k \in 1..TestNum |-> TestSeq]

Budgets == 0..MaxBudget \cup {ConfiguredMaxSize}

(* The calls made on a Tree by a caller that holds only the tree, as the   *)
(* tests of test_tree.py do: how many, the last one with what it gave      *)
(* back, the tree before it, the patterns handed to add, and per pattern   *)
(* the sum of the counts handed to add and increment_count (asked: every   *)
(* such call; applied: add, and increment_count on a pattern that some     *)
(* earlier add had stored).                                                *)
NoSums == [p \in {} |-> 0]

NoCalls ==
    [n |-> 0, last |-> None, before |-> Tree, added |-> {},
     asked |-> NoSums, applied |-> NoSums]

(* The locals of sigthrd.thresholds, before a call. *)
NoThresholds ==
    [pc |-> "idle", num |-> 0, min_len |-> 0, lwr_bd |-> 0, _len |-> 0,
     reach_bd |-> FALSE, len_thrd |-> NoSums]

NotRun == [status |-> "none", patterns |-> {}, passes |-> 0]

Range(seq) == {seq[i] : i \in 1..Len(seq)}

-----------------------------------------------------------------------------
(* The state machine.  enumerated records, in order, the functions that    *)
(* have run a loop over data.items() to its end in the current call:       *)
(* initialized_tree, run_apriori and initialized_queue each hold one such  *)
(* loop, without a break or a return inside it, and no other code reads    *)
(* data.                                                                   *)

Idle ==
    /\ method = None
    /\ pc = "idle"
    /\ tree = Tree
    /\ queue = None
    /\ use_apriori = None
    /\ _len = min_len
    /\ counter = 0
    /\ engine = <<>>
    /\ enumerated = <<>>
    /\ results = [m \in Range(Methods) |-> NotRun]
    /\ calls = NoCalls

InitBounded ==
    /\ data \in Corpora
    /\ min_len \in 1..MaxLen
    /\ max_len \in min_len..MaxLen
    /\ thrd \in 0..MaxThrd
    /\ MAX_SIZE \in Budgets
    /\ Idle

InitTestCase ==
    /\ data = TestData
    /\ min_len = TestMinLen
    /\ max_len = TestMaxLen
    /\ thrd = TestThrd
    /\ MAX_SIZE = ConfiguredMaxSize
    /\ Idle

(* The data and threshold of the tests, mined from the length at which the *)
(* tests of the single functions build their tree (m = 2).                 *)
InitTestLevel ==
    /\ data = TestData
    /\ min_len = TestLevel
    /\ max_len = TestMaxLen
    /\ thrd = TestThrd
    /\ MAX_SIZE = ConfiguredMaxSize
    /\ Idle

Init ==
    /\ InitBounded \/ InitTestCase \/ InitTestLevel
    /\ sigthrd = NoThresholds

Inputs == <<data, min_len, max_len, thrd, MAX_SIZE>>

(* What a run of frequent_patterns has no part in: the calls of a caller   *)
(* of Tree alone, and the locals of thresholds.                            *)
Apart == <<calls, sigthrd>>

(* The next call of test_frequent_patterns: the methods in the test's      *)
(* order, each with a fresh Counter.  A call that raised is followed by    *)
(* the next call like one that returned.                                   *)
NextMethod ==
    CHOOSE k \in 1..Len(Methods) :
        /\ results[Methods[k]].status = "none"
        /\ \A j \in 1..(k - 1) : results[Methods[j]].status # "none"

Call ==
    /\ pc \in {"idle", "returned", "raised"}
    /\ {k \in 1..Len(Methods) : results[Methods[k]].status = "none"} # {}
    /\ method' = Some(Methods[NextMethod])
    /\ _len' = min_len
    /\ tree' = initialized_tree(data, min_len)
    /\ counter' = increment(0)
    /\ queue' = None
    /\ use_apriori' = None
    /\ engine' = <<>>
    /\ enumerated' = <<"initialized_tree">>
    /\ pc' = IF Methods[NextMethod] = "apriori" THEN "loop" ELSE "initialized"
    /\ UNCHANGED <<Inputs, Apart, results>>

PositionRaise ==
    /\ pc = "initialized"
    /\ method = Some("position")
    /\ ExceedsAllocatedMemory(number_of_freq_subseq(tree, _len, thrd), MAX_SIZE)
    /\ pc' = "raised"
    /\ results' = [results EXCEPT !["position"] =
                      [status |-> "raised", patterns |-> {}, passes |-> counter]]
    /\ UNCHANGED <<Inputs, Apart, method, tree, queue, use_apriori, _len, counter,
                   engine, enumerated>>

PositionSetup_uncounted ==
    /\ pc = "initialized"
    /\ method = Some("position")
    /\ ~ExceedsAllocatedMemory(number_of_freq_subseq(tree, _len, thrd), MAX_SIZE)
    /\ LET b == BuildQueue(data, tree, _len, thrd, counter)
       IN  /\ tree' = b.tree
           /\ queue' = b.queue
           /\ counter' = counter
    /\ enumerated' = Append(enumerated, "initialized_queue")
    /\ pc' = "loop"
    /\ UNCHANGED <<Inputs, Apart, method, use_apriori, _len, engine, results>>

PositionSetup ==
    /\ pc = "initialized"
    /\ method = Some("position")
    /\ ~ExceedsAllocatedMemory(number_of_freq_subseq(tree, _len, thrd), MAX_SIZE)
    /\ LET b == BuildQueue(data, tree, _len, thrd, counter)
       IN  /\ tree' = b.tree
           /\ queue' = b.queue
           /\ counter' = b.counter
    /\ enumerated' = Append(enumerated, "initialized_queue")
    /\ pc' = "loop"
    /\ UNCHANGED <<Inputs, Apart, method, use_apriori, _len, engine, results>>

HybridSetup ==
    /\ pc = "initialized"
    /\ method = Some("hybrid")
    /\ use_apriori' = Some(TRUE)
    /\ pc' = "loop"
    /\ UNCHANGED <<Inputs, Apart, method, tree, queue, _len, counter, engine,
                   enumerated, results>>

IterateApriori_uncounted ==
    /\ pc = "loop"
    /\ _len < max_len
    /\ method = Some("apriori")
    /\ _len' = _len + 1
    /\ tree' = run_apriori(data, tree, _len', thrd)
    /\ counter' = counter
    /\ engine' = Append(engine, "apriori")
    /\ enumerated' = Append(enumerated, "run_apriori")
    /\ UNCHANGED <<Inputs, Apart, method, pc, queue, use_apriori, results>>

IterateApriori ==
    /\ pc = "loop"
    /\ _len < max_len
    /\ method = Some("apriori")
    /\ _len' = _len + 1
    /\ tree' = run_apriori(data, tree, _len', thrd)
    /\ counter' = increment(counter)
    /\ engine' = Append(engine, "apriori")
    /\ enumerated' = Append(enumerated, "run_apriori")
    /\ UNCHANGED <<Inputs, Apart, method, pc, queue, use_apriori, results>>

IteratePosition ==
    /\ pc = "loop"
    /\ _len < max_len
    /\ method = Some("position")
    /\ _len' = _len + 1
    /\ LET r == run_position(TheOne(queue), tree, _len', thrd)
       IN  /\ queue' = Some(r.queue)
           /\ tree' = r.tree
    /\ engine' = Append(engine, "position")
    /\ UNCHANGED <<Inputs, Apart, method, pc, use_apriori, counter, enumerated,
                   results>>

(* One iteration of the loop with method 'hybrid': the switch test, then   *)
(* the extension by whichever algorithm use_apriori selects.               *)
IterateHybrid ==
    /\ pc = "loop"
    /\ _len < max_len
    /\ method = Some("hybrid")
    /\ LET sw == HybridSwitch(data, tree, _len, thrd, MAX_SIZE,
                              TheOne(use_apriori), queue, counter)
           switched == TheOne(use_apriori) /\ ~sw.use_apriori
       IN  /\ use_apriori' = Some(sw.use_apriori)
           /\ _len' = _len + 1
           /\ enumerated' =
                 enumerated
                 \o (IF switched THEN <<"initialized_queue">> ELSE <<>>)
                 \o (IF sw.use_apriori THEN <<"run_apriori">> ELSE <<>>)
           /\ IF sw.use_apriori
              THEN /\ tree' = run_apriori(data, sw.tree, _len', thrd)
                   /\ counter' = increment(sw.counter)
                   /\ queue' = sw.queue
                   /\ engine' = Append(engine, "apriori")
              ELSE LET r == run_position(TheOne(sw.queue), sw.tree, _len', thrd)
                   IN  /\ queue' = Some(r.queue)
                       /\ tree' = r.tree
                       /\ counter' = sw.counter
                       /\ engine' = Append(engine, "position")
    /\ UNCHANGED <<Inputs, Apart, method, pc, results>>

Return ==
    /\ pc = "loop"
    /\ ~(_len < max_len)
    /\ pc' = "returned"
    /\ results' = [results EXCEPT ![TheOne(method)] =
                      [status |-> "returned",
                       patterns |-> Range(all_patterns_at_least(tree, thrd)),
                       passes |-> counter]]
    /\ UNCHANGED <<Inputs, Apart, method, tree, queue, use_apriori, _len, counter,
                   engine, enumerated>>

Next ==
    \/ Call
    \/ PositionRaise
    \/ PositionSetup
    \/ HybridSetup
    \/ IterateApriori
    \/ IteratePosition
    \/ IterateHybrid
    \/ Return

Spec == Init /\ [][Next]_vars

-----------------------------------------------------------------------------
(* The Tree class on its own: a caller makes up to MaxCalls calls of add,  *)
(* increment_count, pattern, has_count_at_least and all_patterns_at_least  *)
(* on a tree that starts as an empty root.  Patterns are non-empty, of at  *)
(* most TestLevel symbols; a count is TestDelta or -TestDelta, as in       *)
(* test_increment_count, and a threshold is one of -TestDelta..TestDelta;  *)
(* add is called with a count, with attributes or with neither, as the     *)
(* program calls it.                                                       *)

TreePatterns == Strings(TestLevel) \ {<<>>}

Deltas == {-TestDelta, TestDelta}

Thresholds == (-TestDelta)..TestDelta

Plus(sums, p, d) ==
    [q \in DOMAIN sums \cup {p} |->
        (IF q \in DOMAIN sums THEN sums[q] ELSE 0) + (IF q = p THEN d ELSE 0)]

Prefixes(ps) == UNION {{SubSeq(p, 1, k) : k \in 0..Len(p)} : p \in ps}

CallOf(op, seq, count, attr_val, th) ==
    [op |-> op, seq |-> seq, count |-> count, attr_val |-> attr_val,
     thrd |-> th, outcome |-> "returned", frequent |-> FALSE, yielded |-> <<>>]

(* Tree.pattern raises PatternNotFound where the model's pattern is None.  *)
pattern_outcome(t, seq) ==
    IF pattern(t, <<>>, seq) = None THEN "PatternNotFound" ELSE "returned"

increment_count_uncaught(t, seq) == pattern_outcome(t, seq)

(* try: node = self.pattern(seq) ... except PatternNotFound: pass          *)
increment_count_outcome(t, seq) ==
    IF pattern_outcome(t, seq) = "PatternNotFound" THEN "returned"
    ELSE "returned"

InitTree ==
    /\ data = <<>>
    /\ min_len = TestMinLen
    /\ max_len = TestMaxLen
    /\ thrd = TestThrd
    /\ MAX_SIZE = ConfiguredMaxSize
    /\ Idle
    /\ sigthrd = NoThresholds

Runs == <<Inputs, method, pc, queue, use_apriori, _len, counter, engine,
          enumerated, results>>

TreeAdd ==
    /\ calls.n < MaxCalls
    /\ \E seq \in TreePatterns :
       \E count \in {None} \cup {Some(d) : d \in Deltas} :
       \E attr_val \in {None} \cup {Some([idx |-> 0]) : none \in {None} \ {count}} :
          /\ tree' = add(tree, <<>>, seq, count, attr_val)
          /\ calls' =
                [n |-> calls.n + 1,
                 last |-> Some(CallOf("add", seq, count, attr_val, None)),
                 before |-> tree,
                 added |-> calls.added \cup {seq},
                 asked |-> IF count = None THEN calls.asked
                           ELSE Plus(calls.asked, seq, TheOne(count)),
                 applied |-> IF count = None THEN calls.applied
                             ELSE Plus(calls.applied, seq, TheOne(count))]
    /\ UNCHANGED <<Runs, sigthrd>>

TreeIncrementCount ==
    /\ calls.n < MaxCalls
    /\ \E seq \in TreePatterns : \E count \in Deltas :
          /\ tree' = increment_count(tree, seq, count)
          /\ calls' =
                [n |-> calls.n + 1,
                 last |-> Some([CallOf("increment_count", seq, Some(count),
                                       None, None)
                                EXCEPT !.outcome =
                                    increment_count_outcome(tree, seq)]),
                 before |-> tree,
                 added |-> calls.added,
                 asked |-> Plus(calls.asked, seq, count),
                 applied |-> IF seq \in Prefixes(calls.added)
                             THEN Plus(calls.applied, seq, count)
                             ELSE calls.applied]
    /\ UNCHANGED <<Runs, sigthrd>>

TreePattern ==
    /\ calls.n < MaxCalls
    /\ \E seq \in TreePatterns :
          calls' = [calls EXCEPT
                      !.n = @ + 1,
                      !.last = Some([CallOf("pattern", seq, None, None, None)
                                     EXCEPT !.outcome = pattern_outcome(tree, seq)]),
                      !.before = tree]
    /\ UNCHANGED <<Runs, tree, sigthrd>>

TreeHasCountAtLeast ==
    /\ calls.n < MaxCalls
    /\ \E at \in DOMAIN tree : \E th \in Thresholds :
          calls' = [calls EXCEPT
                      !.n = @ + 1,
                      !.last = Some([CallOf("has_count_at_least", tree[at].seq,
                                            None, None, Some(th))
                                     EXCEPT !.frequent =
                                         has_count_at_least(tree, at, th)]),
                      !.before = tree]
    /\ UNCHANGED <<Runs, tree, sigthrd>>

TreeAllPatternsAtLeast ==
    /\ calls.n < MaxCalls
    /\ \E th \in Thresholds :
          calls' = [calls EXCEPT
                      !.n = @ + 1,
                      !.last = Some([CallOf("all_patterns_at_least", <<>>,
                                            None, None, Some(th))
                                     EXCEPT !.yielded =
                                         all_patterns_at_least(tree, th)]),
                      !.before = tree]
    /\ UNCHANGED <<Runs, tree, sigthrd>>

NextTree ==
    \/ TreeAdd
    \/ TreeIncrementCount
    \/ TreePattern
    \/ TreeHasCountAtLeast
    \/ TreeAllPatternsAtLeast

TreeSpec == InitTree /\ [][NextTree]_vars

-----------------------------------------------------------------------------
(* sigthrd.py.  significant_support(size, _len, conf) solves               *)
(* gammaincc(x, mean) = conf for x, mean = size * 0.25 ** _len, and gives  *)
(* the ceiling of the root, or raises RootFailure when the solver reports  *)
(* no success.  gammaincc(x, mean), the regularized upper incomplete gamma *)
(* function, grows in x from 0 (x -> 0) to 1 and is defined for x > 0 and  *)
(* mean >= 0 only: a root is positive, so its ceiling is at least 1; the   *)
(* ceiling is 1 when gammaincc(1, mean) = exp(-mean) >= conf, which holds  *)
(* when mean <= 1 - conf; with mean = 0 the function is 1 for every x, and *)
(* with mean < 0 it is undefined, so there is no root.  What the ceiling   *)
(* is for a larger mean is not computed here: any integer from 1 on.  The  *)
(* confidence level is the one of support_thresholds.py, in percent.       *)
(* None stands for RootFailure.                                            *)
significant_support(size, n) ==
    IF size <= 0 THEN {None}
    ELSE IF 100 * size <= (100 - ConfPercent) * 4^n THEN {Some(1)}
    ELSE {Some(t) : t \in 1..MaxSupport}

InitThresholds ==
    /\ data = <<>>
    /\ min_len = TestMinLen
    /\ max_len = TestMaxLen
    /\ thrd = TestThrd
    /\ MAX_SIZE = ConfiguredMaxSize
    /\ Idle
    /\ \E num \in 3..MaxNum : \E m \in 1..2 : \E lwr_bd \in 1..MaxLwrBd :
          sigthrd = [pc |-> "loop", num |-> num, min_len |-> m,
                     lwr_bd |-> lwr_bd, _len |-> m, reach_bd |-> FALSE,
                     len_thrd |-> NoSums]

(* One iteration of the while loop of thresholds. *)
ThresholdsIterate ==
    /\ sigthrd.pc = "loop"
    /\ ~sigthrd.reach_bd
    /\ \E t \in significant_support(sigthrd.num - sigthrd._len, sigthrd._len) :
          sigthrd' =
            IF t = None THEN [sigthrd EXCEPT !.pc = "RootFailure"]
            ELSE IF TheOne(t) >= sigthrd.lwr_bd
            THEN [sigthrd EXCEPT
                    !.len_thrd = @ @@ (sigthrd._len :> TheOne(t)),
                    !._len = @ + 1]
            ELSE [sigthrd EXCEPT !.reach_bd = TRUE, !._len = @ + 1]
    /\ UNCHANGED <<Runs, tree, calls>>

ThresholdsReturn ==
    /\ sigthrd.pc = "loop"
    /\ sigthrd.reach_bd
    /\ sigthrd' = [sigthrd EXCEPT !.pc = "returned"]
    /\ UNCHANGED <<Runs, tree, calls>>

NextThresholds ==
    \/ ThresholdsIterate
    \/ ThresholdsReturn

ThresholdsSpec == InitThresholds /\ [][NextThresholds]_vars

-----------------------------------------------------------------------------
(* What the claims are stated in: the corpus itself *)

Positions(n) ==
    UNION {{<<k, off>> : off \in 0..(Len(data[k]) - n)} : k \in 1..Len(data)}

WindowAt(po, n) == SubSeq(data[po[1]], po[2] + 1, po[2] + n)

Occurrences(p) ==
    Cardinality({po \in Positions(Len(p)) : WindowAt(po, Len(p)) = p})

Windows(n) == {WindowAt(po, n) : po \in Positions(n)}

Returned(m) == results[m].status = "returned"

PatternsOf(m) == {pr[1] : pr \in results[m].patterns}

LongestReturned(m) ==
    \E pr \in results[m].patterns : Len(pr[1]) = max_len /\ max_len >= min_len + 2

-----------------------------------------------------------------------------
(* C1: whenever two of the methods 'apriori', 'position' and 'hybrid' have *)
(* returned on the same corpus, lengths and threshold (so Position did not *)
(* raise ExceedAllocatedMemory), they returned the same set of             *)
(* (pattern, count) pairs.                                                 *)
C1_MethodsAgree ==
    \A a \in Range(Methods) : \A b \in Range(Methods) :
        Returned(a) /\ Returned(b) => results[a].patterns = results[b].patterns

(* All three methods returned, with a pattern two levels above min_len.    *)
C1_Witness ==
    /\ \A m \in Range(Methods) : Returned(m) /\ LongestReturned(m)
    /\ thrd >= 2

(* Position raised; A-priori and a hybrid run that used both algorithms    *)
(* returned a pattern two levels above min_len.                            *)
C1_WitnessMixedHybrid ==
    /\ Returned("apriori") /\ LongestReturned("apriori")
    /\ results["position"].status = "raised"
    /\ Returned("hybrid") /\ LongestReturned("hybrid")
    /\ engine = <<"apriori", "position">>

(* C2: every returned (pattern, count), under any method, has count equal  *)
(* to the number of (sequence, offset) positions of the corpus where the   *)
(* pattern occurs as a contiguous substring.                               *)
C2_CountsAreOccurrences ==
    \A m \in Range(Methods) : \A pr \in results[m].patterns :
        pr[2] = Occurrences(pr[1])

(* The position method returned a pattern above min_len that occurs in     *)
(* both sequences.                                                         *)
C2_Witness ==
    /\ Returned("position")
    /\ \E pr \in results["position"].patterns :
          /\ Len(pr[1]) > min_len
          /\ pr[2] >= 2
          /\ \A k \in 1..Len(data) :
                \E po \in Positions(Len(pr[1])) :
                    po[1] = k /\ WindowAt(po, Len(pr[1])) = pr[1]

(* C3: with a threshold of at least 1, every pattern whose length is in    *)
(* [min_len, max_len] and that occurs at least thrd times in the corpus is *)
(* in the result of every method that returned one.                        *)
C3_Complete ==
    \A m \in Range(Methods) :
        Returned(m) /\ thrd >= 1 =>
            \A n \in min_len..max_len : \A p \in Windows(n) :
                Occurrences(p) >= thrd => p \in PatternsOf(m)

(* Every method returned, the threshold is above 1, and some pattern two   *)
(* levels above min_len meets it while another window of that length does  *)
(* not.                                                                    *)
C3_Witness ==
    /\ \A m \in Range(Methods) : Returned(m)
    /\ thrd >= 2
    /\ max_len >= min_len + 2
    /\ \E p \in Windows(max_len) : Occurrences(p) >= thrd
    /\ \E p \in Windows(max_len) : Occurrences(p) < thrd

(* C4: a run with method 'apriori' counts exactly max_len - min_len + 1    *)
(* passes, whatever the corpus and the threshold.                          *)
C4_AprioriPasses ==
    /\ Returned("apriori") => results["apriori"].passes = max_len - min_len + 1
    /\ method = Some("apriori") /\ pc = "returned" =>
          counter = max_len - min_len + 1

(* An A-priori run over three lengths has returned.                        *)
C4_Witness ==
    /\ method = Some("apriori")
    /\ pc = "returned"
    /\ max_len = min_len + 2
    /\ engine = <<"apriori", "apriori">>

(* C5: a run with method 'position' that does not raise counts exactly 2   *)
(* passes, whatever max_len is, max_len = min_len included.                *)
C5_PositionPasses ==
    /\ Returned("position") => results["position"].passes = 2
    /\ method = Some("position") /\ pc = "returned" => counter = 2

(* A position run has extended the queue twice without emptying it.        *)
C5_Witness ==
    /\ method = Some("position")
    /\ pc = "returned"
    /\ engine = <<"position", "position">>
    /\ TheOne(queue) # <<>>

(* A position run has returned without entering the loop.                  *)
C5_WitnessNoExtension ==
    /\ method = Some("position")
    /\ pc = "returned"
    /\ max_len = min_len
    /\ TheOne(queue) # <<>>

(* What the hybrid run did, read off the record of its extensions: level   *)
(* min_len + k was produced by engine[k].                                  *)
AprioriExtensions == Cardinality({k \in 1..Len(engine) : engine[k] = "apriori"})

Switched == use_apriori = Some(FALSE)

HybridRunning == method = Some("hybrid") /\ pc \in {"loop", "returned"}

(* C6: a hybrid run ends with pass count 1 + the number of A-priori        *)
(* extensions it performed + 1 if it switched to Position; so 2 when it    *)
(* switched at min_len with max_len > min_len.                             *)
C6_HybridPasses ==
    method = Some("hybrid") /\ pc = "returned" =>
        /\ counter = 1 + AprioriExtensions + (IF Switched THEN 1 ELSE 0)
        /\ results["hybrid"].passes = counter
        /\ (Switched /\ AprioriExtensions = 0 => counter = 2)

(* A hybrid run returned after an A-priori extension, the switch and a     *)
(* Position extension.                                                     *)
C6_Witness ==
    /\ method = Some("hybrid")
    /\ pc = "returned"
    /\ engine = <<"apriori", "position">>
    /\ Switched

(* A hybrid run that switched at min_len has returned.                     *)
C6_WitnessSwitchAtMinLen ==
    /\ method = Some("hybrid")
    /\ pc = "returned"
    /\ engine = <<"position", "position">>
    /\ counter = 2

FitsUpTo(m) ==
    \E n \in min_len..m : number_of_freq_subseq(tree, n, thrd) <= MAX_SIZE

C7_Levels ==
    HybridRunning =>
        /\ \A k \in 1..Len(engine) :
              engine[k] = "apriori" <=> ~FitsUpTo(min_len + k - 1)
        /\ Switched <=> \E k \in 1..Len(engine) : engine[k] = "position"

C7_NoWayBack ==
    /\ (method = Some("hybrid") /\ method' = method /\ Switched => Switched')
    /\ (method = Some("hybrid") /\ method' = method =>
            Len(engine') >= Len(engine) /\ SubSeq(engine', 1, Len(engine)) = engine)

(* C7: in a hybrid run, level m+1 is produced by an A-priori extension if  *)
(* and only if the frequent-occurrence total exceeded MAX_SIZE at every    *)
(* level from min_len to m, so the switch is at the first level that fits; *)
(* once switched, use_apriori stays false and every later level is         *)
(* produced by a Position extension.                                       *)
C7_SwitchAtFirstFit == [] C7_Levels /\ [][C7_NoWayBack]_vars

(* A hybrid run extended by A-priori from a level that did not fit, then   *)
(* switched at the next one and extended by Position.                      *)
C7_Witness ==
    /\ HybridRunning
    /\ engine = <<"apriori", "position">>
    /\ number_of_freq_subseq(tree, min_len, thrd) > MAX_SIZE
    /\ number_of_freq_subseq(tree, min_len + 1, thrd) > 0

(* A hybrid run never switched, no level fitting.                          *)
C7_WitnessNeverFits ==
    /\ HybridRunning
    /\ engine = <<"apriori", "apriori">>
    /\ ~Switched

(* C8: ExceedAllocatedMemory is raised exactly when the method is          *)
(* 'position' and the frequent-occurrence total at min_len exceeds         *)
(* MAX_SIZE after the initialization; never with 'apriori' or 'hybrid';    *)
(* when it is raised one pass has been counted and no queue is built.      *)
C8_RaiseExactly ==
    /\ pc = "raised" =>
          /\ method = Some("position")
          /\ number_of_freq_subseq(tree, min_len, thrd) > MAX_SIZE
          /\ counter = 1
          /\ queue = None
    /\ method = Some("position") /\ pc \in {"loop", "returned"} =>
          number_of_freq_subseq(tree, min_len, thrd) <= MAX_SIZE
    /\ results["position"].status = "raised" <=>
          /\ results["position"].status # "none"
          /\ number_of_freq_subseq(initialized_tree(data, min_len), min_len, thrd)
                > MAX_SIZE
    /\ results["apriori"].status # "raised"
    /\ results["hybrid"].status # "raised"

(* The position method raised on a corpus with frequent patterns; the      *)
(* hybrid method then returned on the same input.                          *)
C8_Witness ==
    /\ results["position"].status = "raised"
    /\ results["position"].passes = 1
    /\ Returned("hybrid")
    /\ max_len > min_len

NodeCountAtLeast(seq, th) ==
    /\ seq \in DOMAIN tree
    /\ tree[seq].seq = seq
    /\ "count" \in DOMAIN tree[seq]
    /\ tree[seq].count >= th

(* C9: every returned pattern longer than min_len has its prefix and its   *)
(* suffix, one symbol shorter, as nodes of the final trie with a count of  *)
(* at least thrd.                                                          *)
C9_PrefixSuffixFrequent ==
    pc = "returned" =>
        \A pr \in results[TheOne(method)].patterns :
            Len(pr[1]) > min_len =>
                /\ NodeCountAtLeast(SubSeq(pr[1], 1, Len(pr[1]) - 1), thrd)
                /\ NodeCountAtLeast(Tail(pr[1]), thrd)

(* A run returned a pattern two levels above min_len whose prefix and      *)
(* suffix differ, with a threshold above 1.                                *)
C9_Witness ==
    /\ pc = "returned"
    /\ thrd >= 2
    /\ \E pr \in results[TheOne(method)].patterns :
          /\ Len(pr[1]) = min_len + 2
          /\ SubSeq(pr[1], 1, Len(pr[1]) - 1) # Tail(pr[1])

AfterPositionExtension ==
    /\ pc \in {"loop", "returned"}
    /\ engine # <<>>
    /\ engine[Len(engine)] = "position"

LexLess(r1, r2) == r1[1] < r2[1] \/ (r1[1] = r2[1] /\ r1[2] < r2[2])

(* C10: after a Position extension the queue's records are in strictly     *)
(* increasing order of (sequence_id, offset), and each carries the idx of  *)
(* the trie node of the pattern of the current length that occurs at its   *)
(* (sequence_id, offset).                                                  *)
C10_QueueInvariant ==
    AfterPositionExtension =>
        LET q == TheOne(queue)
        IN  /\ \A i \in 1..Len(q) : \A j \in 1..Len(q) :
                  i < j => LexLess(q[i], q[j])
            /\ \A i \in 1..Len(q) :
                  /\ <<q[i][1] + 1, q[i][2]>> \in Positions(_len)
                  /\ LET w == WindowAt(<<q[i][1] + 1, q[i][2]>>, _len)
                     IN  /\ w \in DOMAIN tree
                         /\ "idx" \in DOMAIN tree[w]
                         /\ tree[w].idx = q[i][3]

(* After a second Position extension the queue holds records of both       *)
(* sequences, of two different patterns.                                   *)
C10_Witness ==
    /\ AfterPositionExtension
    /\ Len(engine) = 2
    /\ \E i \in 1..Len(TheOne(queue)) : \E j \in 1..Len(TheOne(queue)) :
          /\ TheOne(queue)[i][1] # TheOne(queue)[j][1]
          /\ TheOne(queue)[i][3] # TheOne(queue)[j][3]

C11_Settled ==
    pc \in {"returned", "raised"} =>
        /\ counter = Len(enumerated)
        /\ results[TheOne(method)].passes = Len(enumerated)

C11_Step ==
    /\ (method' = method => counter' >= counter)
    /\ counter' >= 0
    /\ counter' <= Len(enumerated')

(* C11: during a run of frequent_patterns the pass counter never           *)
(* decreases, and when the run returns or raises ExceedAllocatedMemory the *)
(* counter, which started at 0, equals the number of loops over            *)
(* data.items() the run has carried to the end.                            *)
C11_PassesAreEnumerations == [] C11_Settled /\ [][C11_Step]_vars

(* A hybrid run returned after enumerating the data three times: for the   *)
(* first tree, for an A-priori extension and for the queue.                *)
C11_Witness ==
    /\ method = Some("hybrid")
    /\ pc = "returned"
    /\ enumerated = <<"initialized_tree", "run_apriori", "initialized_queue">>
    /\ counter = 3

(* A position run raised after the one enumeration of the first pass.      *)
C11_WitnessRaised ==
    /\ pc = "raised"
    /\ enumerated = <<"initialized_tree">>
    /\ counter = 1

-----------------------------------------------------------------------------
(* The test corpus at the level of the tests of the single functions *)

AT == <<"A", "T">>

CG == <<"C", "G">>

GA == <<"G", "A">>

TC == <<"T", "C">>

OnTestCorpus == data = TestData /\ thrd = TestThrd /\ min_len = TestLevel

(* The state a position run is in when assign_pattern_index and            *)
(* initialized_queue have run and no extension has.                        *)
AfterIndexing ==
    /\ method = Some("position")
    /\ pc = "loop"
    /\ engine = <<>>

SeqsOf(ns) == [i \in 1..Len(ns) |-> tree[ns[i]].seq]

(* C12 as stated: the frequent level-2 nodes of the test corpus are        *)
(* visited in the order AT, CG, GA, TC and so indexed 0, 1, 2, 3.          *)
C12_AsStated ==
    OnTestCorpus /\ AfterIndexing =>
        /\ SeqsOf(Frequent(tree, TestLevel, TestThrd)) = <<AT, CG, GA, TC>>
        /\ tree[AT].idx = 0
        /\ tree[CG].idx = 1
        /\ tree[GA].idx = 2
        /\ tree[TC].idx = 3

(* C12, amended: on two copies of ACGATTCGATCG, after initialized_tree at  *)
(* length 2 and assign_pattern_index with threshold 4, the frequent        *)
(* level-2 nodes are visited in the order AT, CG, TC, GA (children are     *)
(* walked in the order A, C, T, G), so idx(AT) = 0, idx(CG) = 1,           *)
(* idx(TC) = 2 and idx(GA) = 3; AC and TT get no idx.                      *)
C12_IndexOrder ==
    OnTestCorpus /\ AfterIndexing =>
        /\ SeqsOf(Frequent(tree, TestLevel, TestThrd)) = <<AT, CG, TC, GA>>
        /\ tree[AT].idx = 0
        /\ tree[CG].idx = 1
        /\ tree[TC].idx = 2
        /\ tree[GA].idx = 3
        /\ \A at \in DOMAIN tree :
              "idx" \in DOMAIN tree[at] <=> at \in {AT, CG, TC, GA}

(* The level-2 tree of the test corpus has been indexed: AC and TT are     *)
(* nodes below the threshold, AT, CG, TC and GA carry an idx.              *)
C12_Witness ==
    /\ OnTestCorpus
    /\ AfterIndexing
    /\ {<<"A", "C">>, <<"T", "T">>} \subseteq DOMAIN tree
    /\ \A at \in {AT, CG, TC, GA} : "idx" \in DOMAIN tree[at]

-----------------------------------------------------------------------------
(* The Tree class on its own *)

Parent(at) == SubSeq(at, 1, Len(at) - 1)

PathsAndSeqs ==
    /\ \A at \in DOMAIN tree : at # <<>> => Parent(at) \in DOMAIN tree
    /\ DOMAIN tree = {<<>>} \cup Prefixes(calls.added)
    /\ \A at \in DOMAIN tree : tree[at].seq = at

CountsAre(sums) ==
    \A at \in DOMAIN tree :
        /\ "count" \in DOMAIN tree[at] <=> at \in DOMAIN sums
        /\ at \in DOMAIN sums => tree[at].count = sums[at]

(* C13 as stated: the stored patterns are prefix-closed, every node's seq  *)
(* is its path, and a node has a count exactly when some add or            *)
(* increment_count call named its pattern with a count, the count being    *)
(* the sum of the counts of all those calls.                               *)
C13_AsStated == PathsAndSeqs /\ CountsAre(calls.asked)

(* C13, amended: from an empty root, after any calls of add and            *)
(* increment_count, the stored patterns are the prefixes of the patterns   *)
(* handed to add, every node's seq is its path, and a node has a count     *)
(* exactly when an add with a count, or an increment_count made when the   *)
(* pattern was already stored, named its pattern; the count is the sum of  *)
(* the counts of those calls.  An increment_count on a pattern not yet     *)
(* stored adds nothing to the count the pattern gets later.                *)
C13_TreeInvariant == PathsAndSeqs /\ CountsAre(calls.applied)

(* A node two levels down has count 2 after an increment_count that came   *)
(* too early, an add with a count and an increment_count; its parent was   *)
(* created on the way and has no count.                                    *)
C13_Witness ==
    \E at \in DOMAIN tree :
        /\ Len(at) = TestLevel
        /\ "count" \in DOMAIN tree[at]
        /\ tree[at].count = 2 * TestDelta
        /\ at \in DOMAIN calls.asked
        /\ calls.asked[at] = 3 * TestDelta
        /\ "count" \notin DOMAIN tree[Parent(at)]

CountOr0(node) == IF "count" \in DOMAIN node THEN node.count ELSE 0

IsIncrementCount(c) == c.last # None /\ TheOne(c.last).op = "increment_count"

(* What one call increment_count(seq, d) may change. *)
C14_Frame ==
    calls'.n = calls.n + 1 /\ IsIncrementCount(calls') =>
        LET seq == TheOne(calls'.last).seq
            d == TheOne(TheOne(calls'.last).count)
        IN  /\ TheOne(calls'.last).outcome = "returned"
            /\ seq \notin DOMAIN tree => tree' = tree
            /\ seq \in DOMAIN tree =>
                  /\ DOMAIN tree' = DOMAIN tree
                  /\ \A at \in DOMAIN tree \ {seq} : tree'[at] = tree[at]
                  /\ DOMAIN tree'[seq] = DOMAIN tree[seq] \cup {"count"}
                  /\ \A f \in DOMAIN tree[seq] \ {"count"} :
                        tree'[seq][f] = tree[seq][f]
                  /\ tree'[seq].count = CountOr0(tree[seq]) + d

(* increment_count(seq, d) directly followed by increment_count(seq, -d). *)
C14_ThereAndBack ==
    /\ calls'.n = calls.n + 1
    /\ IsIncrementCount(calls) /\ IsIncrementCount(calls')
    /\ TheOne(calls'.last).seq = TheOne(calls.last).seq
    /\ TheOne(TheOne(calls'.last).count) = 0 - TheOne(TheOne(calls.last).count)
    /\ TheOne(calls.last).seq \in DOMAIN calls.before
    => LET seq == TheOne(calls.last).seq
       IN  /\ CountOr0(tree'[seq]) = CountOr0(calls.before[seq])
           /\ "count" \in DOMAIN calls.before[seq] => tree' = calls.before

(* C14: increment_count(seq, delta) on a pattern that is not stored leaves *)
(* the whole trie as it was and returns without PatternNotFound; on a      *)
(* stored pattern it changes nothing but that node's count, which becomes  *)
(* (count or 0) + delta, delta negative included; incrementing by d and    *)
(* then by -d gives back the previous count (0 for a node that had none).  *)
C14_IncrementCountFrame == [][C14_Frame /\ C14_ThereAndBack]_vars

(* A node with count 2 has just been taken back to 1 by a negative         *)
(* increment, beside other nodes.                                          *)
C14_Witness ==
    /\ IsIncrementCount(calls)
    /\ TheOne(TheOne(calls.last).count) = 0 - TestDelta
    /\ LET seq == TheOne(calls.last).seq
       IN  /\ seq \in DOMAIN calls.before
           /\ "count" \in DOMAIN calls.before[seq]
           /\ calls.before[seq].count = 2 * TestDelta
           /\ tree[seq].count = TestDelta
           /\ Cardinality(DOMAIN tree) >= 3

(* increment_count has just been called on a pattern that is not stored,   *)
(* on a tree that stores others.                                           *)
C14_WitnessAbsent ==
    /\ IsIncrementCount(calls)
    /\ TheOne(calls.last).seq \notin DOMAIN tree
    /\ Cardinality(DOMAIN tree) >= 3
    /\ calls.n = MaxCalls

LastCall == TheOne(calls.last)

Asked(op) == calls.last # None /\ LastCall.op = op

WithCountAtLeast(th) ==
    {at \in DOMAIN tree : at \in DOMAIN calls.applied /\ calls.applied[at] >= th}

(* C15: a node without a count is not frequent at any threshold, 0 and     *)
(* negative ones included; all_patterns_at_least(T) yields, once each, the *)
(* (seq, count) pairs of exactly the nodes of any level that have a count  *)
(* of at least T, and so never the root nor a node that was only created   *)
(* on the way to another or added without a count.                         *)
C15_CountlessNeverFrequent ==
    /\ Asked("has_count_at_least") =>
          (LastCall.frequent <=>
              LastCall.seq \in WithCountAtLeast(TheOne(LastCall.thrd)))
    /\ Asked("all_patterns_at_least") =>
          LET ys == LastCall.yielded
              th == TheOne(LastCall.thrd)
          IN  /\ \A i \in 1..Len(ys) : \A j \in 1..Len(ys) :
                    ys[i] = ys[j] => i = j
              /\ Range(ys) =
                    {<<at, calls.applied[at]>> : at \in WithCountAtLeast(th)}
              /\ \A i \in 1..Len(ys) :
                    /\ ys[i][1] # <<>>
                    /\ "count" \in DOMAIN tree[ys[i][1]]
                    /\ ys[i][2] = tree[ys[i][1]].count

(* has_count_at_least was asked, with a threshold below 0, of a node that  *)
(* was created on the way to a counted one and has no count.               *)
C15_Witness ==
    /\ Asked("has_count_at_least")
    /\ TheOne(LastCall.thrd) < 0
    /\ LastCall.seq # <<>>
    /\ "count" \notin DOMAIN tree[LastCall.seq]
    /\ \E at \in DOMAIN tree : "count" \in DOMAIN tree[at]

(* all_patterns_at_least(0) yielded a node two levels down and left out a  *)
(* node without a count.                                                   *)
C15_WitnessAllPatterns ==
    /\ Asked("all_patterns_at_least")
    /\ TheOne(LastCall.thrd) = 0
    /\ \E i \in 1..Len(LastCall.yielded) : Len(LastCall.yielded[i][1]) = TestLevel
    /\ \E at \in DOMAIN tree : at # <<>> /\ "count" \notin DOMAIN tree[at]

-----------------------------------------------------------------------------
(* A corpus without a window of the first length *)

EmptyCorpus == \A k \in 1..Len(data) : Len(data[k]) < min_len

(* C16: on a corpus with no sequence, or only sequences shorter than       *)
(* min_len, no method raises, every method returns the empty set, and the  *)
(* passes are counted all the same: max_len - min_len + 1 by 'apriori' and *)
(* 2 by 'position'; the trie never gets a node beside the root.            *)
C16_EmptyCorpus ==
    EmptyCorpus =>
        /\ pc # "raised"
        /\ tree = Tree
        /\ queue \in {None, Some(<<>>)}
        /\ \A m \in Range(Methods) :
              /\ results[m].status # "raised"
              /\ results[m].patterns = {}
        /\ Returned("apriori") =>
              results["apriori"].passes = max_len - min_len + 1
        /\ Returned("position") => results["position"].passes = 2
        /\ pc = "returned" => all_patterns_at_least(tree, thrd) = <<>>

(* All three methods returned over two extensions on a corpus whose        *)
(* sequences are not empty but shorter than min_len, with no room for a    *)
(* queue at all.                                                           *)
C16_Witness ==
    /\ EmptyCorpus
    /\ \E k \in 1..Len(data) : Len(data[k]) > 0
    /\ MAX_SIZE = 0
    /\ max_len = min_len + 1
    /\ \A m \in Range(Methods) : Returned(m)
    /\ results["apriori"].passes = 2
    /\ results["position"].passes = 2

(* All three methods returned on a corpus without sequences.               *)
C16_WitnessNoSequence ==
    /\ data = <<>>
    /\ max_len = min_len + 2
    /\ \A m \in Range(Methods) : Returned(m)
    /\ results["apriori"].passes = 3
    /\ results["position"].passes = 2

-----------------------------------------------------------------------------
(* thresholds *)

(* C17: for every positive lower bound, 1 included, thresholds ends its    *)
(* loop because the threshold of some length falls below the bound: it is  *)
(* never left at a length with nothing to count (num - _len <= 0) and the  *)
(* bound not reached, nor with RootFailure in place of the mapping.        *)
C17_Terminates ==
    sigthrd.pc # "idle" /\ sigthrd.lwr_bd >= 1 =>
        /\ sigthrd.pc # "RootFailure"
        /\ sigthrd.num - sigthrd._len <= 0 => sigthrd.reach_bd

(* With a lower bound of 2 or more the loop of the model does end by a     *)
(* threshold of 1.                                                         *)
ThresholdsEndAboveOne ==
    sigthrd.pc # "idle" /\ sigthrd.lwr_bd >= 2 =>
        /\ sigthrd.pc # "RootFailure"
        /\ sigthrd.num - sigthrd._len <= 0 => sigthrd.reach_bd

-----------------------------------------------------------------------------
(* Candidate generation *)

ATC == <<"A", "T", "C">>

CGA == <<"C", "G", "A">>

GAT == <<"G", "A", "T">>

TCG == <<"T", "C", "G">>

Level(n) == {at \in DOMAIN tree : Len(at) = n}

NoRepeat(seq) == \A i \in 1..Len(seq) : \A j \in 1..Len(seq) : seq[i] = seq[j] => i = j

(* The strings of length n whose prefix and suffix of length n - 1 are     *)
(* nodes of the trie with a count of at least thrd.                        *)
Joinable(n) ==
    {C \in {Append(p, c) : p \in Level(n - 1), c \in Range(NUCLEOTIDES)} :
        /\ NodeCountAtLeast(SubSeq(C, 1, n - 1), thrd)
        /\ NodeCountAtLeast(Tail(C), thrd)}

ExtensionDue == pc = "loop" /\ _len < max_len

AfterAprioriExtension ==
    /\ pc \in {"loop", "returned"}
    /\ engine # <<>>
    /\ engine[Len(engine)] = "apriori"

(* C18: candidates(tree, m + 1, T) yields, once each, exactly the strings  *)
(* of length m + 1 whose prefix and suffix of length m are nodes with a    *)
(* count of at least T, and these are the nodes an A-priori extension adds *)
(* at level m + 1; on the level-2 tree of the test corpus with T = 4 they  *)
(* are ATC, CGA, GAT and TCG.                                              *)
C18_Candidates ==
    /\ ExtensionDue =>
          LET cs == candidates(tree, _len + 1, thrd)
          IN  /\ NoRepeat(cs)
              /\ Range(cs) = Joinable(_len + 1)
              /\ OnTestCorpus /\ _len = TestLevel =>
                    Range(cs) = {ATC, CGA, GAT, TCG}
    /\ AfterAprioriExtension => Level(_len) = Joinable(_len)

(* A-priori has extended the level-2 tree of the test corpus by ATC, CGA,  *)
(* GAT and TCG.                                                            *)
C18_Witness ==
    /\ OnTestCorpus
    /\ method = Some("apriori")
    /\ engine = <<"apriori">>
    /\ _len = TestLevel + 1
    /\ Level(_len) = {ATC, CGA, GAT, TCG}

(* An extension is due on a tree where some string with a frequent prefix  *)
(* is no candidate, its suffix being below the threshold.                  *)
C18_WitnessInfrequentSuffix ==
    /\ ExtensionDue
    /\ Joinable(_len + 1) # {}
    /\ \E p \in Level(_len) : \E c \in Range(NUCLEOTIDES) :
          /\ NodeCountAtLeast(p, thrd)
          /\ Tail(Append(p, c)) \in DOMAIN tree
          /\ Append(p, c) \notin Joinable(_len + 1)

-----------------------------------------------------------------------------
(* Candidate mappings *)

FrequentAt(n) == {at \in Level(n) : NodeCountAtLeast(at, thrd)}

DistinctIdx(n) ==
    /\ \A at \in FrequentAt(n) : "idx" \in DOMAIN tree[at]
    /\ \A a \in FrequentAt(n) : \A b \in FrequentAt(n) :
          tree[a].idx = tree[b].idx => a = b

Rank(nc) == CHOOSE i \in 1..Len(NUCLEOTIDES) : NUCLEOTIDES[i] = nc

(* s1 before s2 in the order of the tuple NUCLEOTIDES, symbol by symbol. *)
Before(s1, s2) ==
    \E i \in 1..Len(s1) :
        /\ \A j \in 1..(i - 1) : s1[j] = s2[j]
        /\ Rank(s1[i]) < Rank(s2[i])

(* C19: where every frequent node of level m carries an idx of its own,    *)
(* candidate_mappings(tree, m + 1, T) yields the strings of                *)
(* candidates(tree, m + 1, T) in the same order (prefixes in the order of  *)
(* the trie walk, last symbols in the order of NUCLEOTIDES), numbers them  *)
(* 0, 1, 2, ... and pairs each with (idx of its prefix, idx of its         *)
(* suffix); no two candidates get the same pair, so index_map holds one    *)
(* entry per candidate.                                                    *)
C19_Mappings ==
    ExtensionDue /\ DistinctIdx(_len) =>
        LET cms == candidate_mappings(tree, _len + 1, thrd)
        IN  /\ [k \in 1..Len(cms) |-> cms[k][1]] = candidates(tree, _len + 1, thrd)
            /\ \A k \in 1..Len(cms) :
                  /\ cms[k][3] = k - 1
                  /\ cms[k][2] = <<tree[SubSeq(cms[k][1], 1, _len)].idx,
                                   tree[Tail(cms[k][1])].idx>>
            /\ \A j \in 1..Len(cms) : \A k \in 1..Len(cms) :
                  /\ j < k => Before(cms[j][1], cms[k][1])
                  /\ cms[j][2] = cms[k][2] => j = k
            /\ Cardinality(DOMAIN IndexMap(cms)) = Len(cms)
            /\ OnTestCorpus /\ _len = TestLevel /\ method = Some("position") =>
                  {<<cms[k][1], cms[k][2]>> : k \in 1..Len(cms)} =
                      {<<ATC, <<tree[AT].idx, tree[TC].idx>> >>,
                       <<CGA, <<tree[CG].idx, tree[GA].idx>> >>,
                       <<GAT, <<tree[GA].idx, tree[AT].idx>> >>,
                       <<TCG, <<tree[TC].idx, tree[CG].idx>> >>}

(* Position has extended the indexed level-2 tree of the test corpus: the  *)
(* candidates were numbered in the order ATC, CGA, TCG, GAT.               *)
C19_Witness ==
    /\ OnTestCorpus
    /\ method = Some("position")
    /\ engine = <<"position">>
    /\ Level(_len) = {ATC, CGA, TCG, GAT}
    /\ tree[ATC].idx = 0
    /\ tree[CGA].idx = 1
    /\ tree[TCG].idx = 2
    /\ tree[GAT].idx = 3

(* A second Position extension is due, from idx values that the first one  *)
(* gave to its candidates, two of them frequent.                           *)
C19_WitnessSecondExtension ==
    /\ ExtensionDue
    /\ engine = <<"position">>
    /\ DistinctIdx(_len)
    /\ Cardinality(FrequentAt(_len)) >= 2
    /\ Len(candidate_mappings(tree, _len + 1, thrd)) >= 2

-----------------------------------------------------------------------------
(* The first queue *)

CountAtLeastIn(t, seq, th) ==
    /\ seq \in DOMAIN t
    /\ "count" \in DOMAIN t[seq]
    /\ t[seq].count >= th

(* q lists, in the order of the corpus, one record per window of length n  *)
(* whose node in t has a count of at least thrd, with the idx of the node. *)
FrequentWindows(q, t, n) ==
    /\ \A i \in 1..Len(q) : \A j \in 1..Len(q) : i < j => LexLess(q[i], q[j])
    /\ {<<q[i][1] + 1, q[i][2]>> : i \in 1..Len(q)} =
          {po \in Positions(n) : CountAtLeastIn(t, WindowAt(po, n), thrd)}
    /\ \A i \in 1..Len(q) :
          q[i][3] = t[WindowAt(<<q[i][1] + 1, q[i][2]>>, n)].idx

SwitchDue ==
    /\ ExtensionDue
    /\ method = Some("hybrid")
    /\ use_apriori = Some(TRUE)
    /\ number_of_freq_subseq(tree, _len, thrd) <= MAX_SIZE

TestQueueOf(id) ==
    << <<id, 1, tree[CG].idx>>, <<id, 2, tree[GA].idx>>, <<id, 3, tree[AT].idx>>,
       <<id, 5, tree[TC].idx>>, <<id, 6, tree[CG].idx>>, <<id, 7, tree[GA].idx>>,
       <<id, 8, tree[AT].idx>>, <<id, 9, tree[TC].idx>>, <<id, 10, tree[CG].idx>> >>

(* C20: the queue initialized_queue builds after assign_pattern_index, in  *)
(* a position run and at the switch of a hybrid run, holds one record      *)
(* (sequence_id, offset, node.idx) for each window of the current length   *)
(* whose trie node has a count of at least thrd, and no other, sequence 0  *)
(* before sequence 1 and offsets ascending; on the test corpus at length 2 *)
(* it is the list of test_initialized_queue.                               *)
C20_FirstQueue ==
    /\ AfterIndexing =>
          /\ FrequentWindows(TheOne(queue), tree, _len)
          /\ OnTestCorpus => TheOne(queue) = TestQueueOf(0) \o TestQueueOf(1)
    /\ SwitchDue =>
          LET b == BuildQueue(data, tree, _len, thrd, counter)
          IN  FrequentWindows(TheOne(b.queue), b.tree, _len)

(* The queue of the test corpus at length 2 has been built: 18 records,    *)
(* none for the windows AC and TT.                                         *)
C20_Witness ==
    /\ OnTestCorpus
    /\ AfterIndexing
    /\ Len(TheOne(queue)) = 18
    /\ TheOne(queue)[1] = <<0, 1, tree[CG].idx>>
    /\ TheOne(queue)[10] = <<1, 1, tree[CG].idx>>

(* A queue has been built that leaves out a window below the threshold     *)
(* between two windows it holds, in a corpus of two sequences it has       *)
(* records of.                                                             *)
C20_WitnessGap ==
    /\ AfterIndexing
    /\ \E i \in 1..(Len(TheOne(queue)) - 1) :
          /\ TheOne(queue)[i][1] = TheOne(queue)[i + 1][1]
          /\ TheOne(queue)[i + 1][2] > TheOne(queue)[i][2] + 1
    /\ \E i \in 1..Len(TheOne(queue)) : TheOne(queue)[i][1] = 1

(* A hybrid run is about to switch after an A-priori extension, and the    *)
(* queue it is about to build has more than one record.                    *)
C20_WitnessSwitch ==
    /\ SwitchDue
    /\ _len > min_len
    /\ Len(TheOne(BuildQueue(data, tree, _len, thrd, counter).queue)) > 1

-----------------------------------------------------------------------------
(* A Position extension *)

(* The (sequence_id, offset) pairs of the records of q, as positions of    *)
(* the corpus.                                                             *)
PlacesOf(q) == {<<q[i][1] + 1, q[i][2]>> : i \in 1..Len(q)}

Ascending(q) ==
    \A i \in 1..Len(q) : \A j \in 1..Len(q) : i < j => LexLess(q[i], q[j])

RecordsWith(q, idx) == Cardinality({i \in 1..Len(q) : q[i][3] = idx})

(* The positions at which a pattern of ps, all of length n, occurs.        *)
PlacesWhere(ps, n) == {po \in Positions(n) : WindowAt(po, n) \in ps}

(* The nodes of level n that carry an idx.                                 *)
Indexed(n) == {at \in Level(n) : "idx" \in DOMAIN tree[at]}

(* The queue lists, in document order, every occurrence of the indexed     *)
(* patterns of the current length, each with the idx of its pattern.       *)
ListsIndexed ==
    LET q == TheOne(queue)
    IN  /\ Ascending(q)
        /\ PlacesOf(q) = PlacesWhere(Indexed(_len), _len)
        /\ \A i \in 1..Len(q) :
              q[i][3] = tree[WindowAt(<<q[i][1] + 1, q[i][2]>>, _len)].idx

TestExtendedQueueOf(id) ==
    << <<id, 1, tree[CGA].idx>>, <<id, 2, tree[GAT].idx>>,
       <<id, 5, tree[TCG].idx>>, <<id, 6, tree[CGA].idx>>,
       <<id, 7, tree[GAT].idx>>, <<id, 8, tree[ATC].idx>>,
       <<id, 9, tree[TCG].idx>> >>

C21_WitnessNoOccurrence ==
    /\ AfterPositionExtension
    /\ \E C \in Joinable(_len) : "count" \notin DOMAIN tree[C]
    /\ \E C \in Joinable(_len) : "count" \in DOMAIN tree[C]

-----------------------------------------------------------------------------
(* What the queue holds from level to level *)

C22_WitnessHybrid ==
    /\ AfterPositionExtension
    /\ method = Some("hybrid")
    /\ Len(engine) >= 2
    /\ \E po \in PlacesOf(TheOne(queue)) :
          ~NodeCountAtLeast(WindowAt(po, _len), thrd)

-----------------------------------------------------------------------------
(* Which nodes carry an idx *)

PositionOrHybrid == method \in {Some("position"), Some("hybrid")}

IndexedLevels == {Len(at) : at \in {a \in DOMAIN tree : "idx" \in DOMAIN tree[a]}}

IdxAt(n) == {tree[at].idx : at \in Indexed(n)}

PositionExtensions == Len(engine) - AprioriExtensions

(* The level at which assign_pattern_index ran, once a queue exists.       *)
BuildLevel == _len - PositionExtensions

(* C23 as stated: in a Position or Hybrid run at most one level of the     *)
(* trie has nodes that carry an idx, and the idx values at that level are  *)
(* exactly 0..K-1, K the number of nodes of the level with a count of at   *)
(* least thrd.                                                             *)
C23_AsStated ==
    PositionOrHybrid =>
        /\ Cardinality(IndexedLevels) <= 1
        /\ \A n \in IndexedLevels :
              IdxAt(n) = 0..(Cardinality(FrequentAt(n)) - 1)

(* C23: in a Position or Hybrid run the levels with nodes that carry an    *)
(* idx lie between the level at which the queue was built and the current  *)
(* length (the levels below the current one keep their idx); at each of    *)
(* them the idx values are exactly 0..K-1, one node each, K being the      *)
(* number of nodes with a count of at least thrd at the level the queue    *)
(* was built at, and the number of generated candidates at a level a       *)
(* Position extension added.                                               *)
C23_IndexedLevels ==
    PositionOrHybrid =>
        /\ \A n \in IndexedLevels :
              /\ queue # None
              /\ BuildLevel <= n /\ n <= _len
              /\ IdxAt(n) = 0..(Cardinality(Indexed(n)) - 1)
              /\ Indexed(n) = IF n = BuildLevel THEN FrequentAt(n) ELSE Joinable(n)
        /\ queue # None =>
              /\ Indexed(BuildLevel) = FrequentAt(BuildLevel)
              /\ \A n \in (BuildLevel + 1).._len : Indexed(n) = Joinable(n)

(* After the extension of test_run_position levels 2 and 3 both carry idx  *)
(* values 0..3, and only three nodes of level 3 have a count of at least   *)
(* the threshold.                                                          *)
C23_Witness ==
    /\ OnTestCorpus
    /\ method = Some("position")
    /\ engine = <<"position">>
    /\ IndexedLevels = {TestLevel, TestLevel + 1}
    /\ IdxAt(TestLevel) = 0..3
    /\ IdxAt(TestLevel + 1) = 0..3
    /\ Cardinality(FrequentAt(TestLevel + 1)) = 3

(* A hybrid run switched after an A-priori extension and extended twice:   *)
(* three levels carry an idx, the levels below the switch none.            *)
C23_WitnessHybrid ==
    /\ method = Some("hybrid")
    /\ AprioriExtensions >= 1
    /\ PositionExtensions >= 1
    /\ Cardinality(IndexedLevels) = PositionExtensions + 1
    /\ min_len \notin IndexedLevels

-----------------------------------------------------------------------------
(* An A-priori extension *)

(* The step is a call of run_apriori, by method 'apriori' or by 'hybrid'   *)
(* before its switch.                                                      *)
AprioriStep == engine' = Append(engine, "apriori")

AC == <<"A", "C">>

TT == <<"T", "T">>

TestNodes ==
    {<<>>, <<"A">>, <<"C">>, <<"G">>, <<"T">>, AC, AT, CG, GA, TT, TC}

C24_Effect ==
    AprioriStep =>
        LET cs == candidates(tree, _len + 1, thrd)
            added == AddEach(tree, cs, None)
        IN  /\ \A at \in DOMAIN tree : at \in DOMAIN tree' /\ tree'[at] = tree[at]
            /\ DOMAIN tree' \ DOMAIN tree = Range(cs)
            /\ Range(cs) = Joinable(_len + 1)
            /\ DOMAIN added = DOMAIN tree'
            /\ \A C \in Range(cs) : "count" \notin DOMAIN added[C]
            /\ \A C \in Range(cs) :
                  /\ tree'[C].seq = C
                  /\ "idx" \notin DOMAIN tree'[C]
                  /\ IF Occurrences(C) = 0
                     THEN "count" \notin DOMAIN tree'[C]
                     ELSE /\ "count" \in DOMAIN tree'[C]
                          /\ tree'[C].count = Occurrences(C)
            /\ OnTestCorpus /\ _len = TestLevel =>
                  /\ DOMAIN tree' = TestNodes \cup {ATC, CGA, GAT, TCG}
                  /\ {<<C, tree'[C].count>> : C \in Range(cs)} =
                        {<<ATC, 2>>, <<CGA, 4>>, <<GAT, 4>>, <<TCG, 4>>}

(* C24: a call of run_apriori for length m + 1 leaves every node of the    *)
(* trie it was given as it was, count included; the nodes it adds are      *)
(* exactly the generated candidates of length m + 1, added without a       *)
(* count, none for a window that is no candidate; and when it is done a    *)
(* candidate has a count, the number of its occurrences, exactly when it   *)
(* occurs in the corpus.  On the level-2 tree of the test corpus the       *)
(* result is the tree of test_run_apriori.                                 *)
C24_AprioriFrame == [][C24_Effect]_vars

(* The extension of test_run_apriori has run: four candidates added and   *)
(* counted, and no node for the windows ACG, ATT and TTC, which are no     *)
(* candidates.                                                             *)
C24_Witness ==
    /\ OnTestCorpus
    /\ method = Some("apriori")
    /\ engine = <<"apriori">>
    /\ DOMAIN tree = TestNodes \cup {ATC, CGA, GAT, TCG}
    /\ tree[ATC].count = 2
    /\ <<"A", "C", "G">> \in Windows(_len)
    /\ <<"A", "C", "G">> \notin DOMAIN tree

(* A-priori has extended a trie by a candidate that occurs and by one that *)
(* occurs nowhere.                                                         *)
C24_WitnessNoOccurrence ==
    /\ AfterAprioriExtension
    /\ \E C \in Level(_len) : "count" \in DOMAIN tree[C]
    /\ \E C \in Level(_len) : "count" \notin DOMAIN tree[C]

-----------------------------------------------------------------------------
(* The size of the queue *)

C25_Bounded ==
    /\ PositionOrHybrid /\ queue # None => Len(TheOne(queue)) <= MAX_SIZE
    /\ AfterIndexing =>
          /\ Len(TheOne(queue)) = number_of_freq_subseq(tree, _len, thrd)
          /\ Len(TheOne(queue)) =
                Cardinality(PlacesWhere(FrequentAt(_len), _len))
    /\ SwitchDue =>
          LET b == BuildQueue(data, tree, _len, thrd, counter)
              r == run_position(TheOne(b.queue), b.tree, _len + 1, thrd)
          IN  /\ Len(TheOne(b.queue)) = number_of_freq_subseq(tree, _len, thrd)
              /\ Len(TheOne(b.queue)) <= MAX_SIZE
              /\ Len(r.queue) <= Len(TheOne(b.queue))

(* The step is a Position extension of a queue built in an earlier step.   *)
C25_Step ==
    engine' = Append(engine, "position") /\ queue # None =>
        Len(TheOne(queue')) <= Len(TheOne(queue))

(* C25: in a Position or Hybrid run the queue never holds more than        *)
(* MAX_SIZE records: when it is built at a level, in a position run and at *)
(* the switch of a hybrid run, its length is number_of_freq_subseq of that *)
(* level, which the controller found to be at most MAX_SIZE, and no        *)
(* Position extension leaves the queue longer than it found it.            *)
C25_QueueFits == [] C25_Bounded /\ [][C25_Step]_vars

(* A position run built a queue of exactly MAX_SIZE records, two or more,  *)
(* and its extension left a shorter, non-empty queue.                      *)
C25_Witness ==
    /\ method = Some("position")
    /\ engine = <<"position">>
    /\ MAX_SIZE >= 2
    /\ number_of_freq_subseq(tree, _len - 1, thrd) = MAX_SIZE
    /\ Len(TheOne(queue)) >= 1
    /\ Len(TheOne(queue)) < MAX_SIZE

(* A hybrid run stayed with A-priori while the queue would not fit a      *)
(* budget below the configured one, then switched, and holds a queue that  *)
(* is not empty after a Position extension.                                *)
C25_WitnessHybrid ==
    /\ method = Some("hybrid")
    /\ AprioriExtensions >= 1
    /\ PositionExtensions >= 1
    /\ MAX_SIZE < ConfiguredMaxSize
    /\ Len(TheOne(queue)) >= 1

====
